---- MODULE Spec2Model ----
(***************************************************************************)
(* One coordination session of the coordinated activity adapter            *)
(* (activity/interceptors.go): the goroutine running coordinate, the       *)
(* goroutine running heartbeat, the two time.Ticker values they wait on,   *)
(* the unbuffered cancel channel and the stop channel.                     *)
(*                                                                         *)
(* Time is a discrete clock.  A time.Ticker is a channel holding at most   *)
(* one value: a firing that finds the value of an earlier firing still in  *)
(* the channel is dropped.  The clock measures the ticker `ticks`; the     *)
(* ticker `heartbeats` runs on a period that need not be a whole number of *)
(* clock units and starts whenever the goroutine gets to run, so it may    *)
(* fire at any instant.                                                    *)
(***************************************************************************)
EXTENDS Integers, Sequences, FiniteSets

\* ------------------------------------------------------------------ bounds
\* Largest tickMinInterval (clock units) a session is given.
MaxInterval == 2
\* The handler's Tick returns continue=false at the latest on this invocation.
MaxTicks == 3
\* The monitor makes at most this many RecordActivityTaskHeartbeat calls.
MaxHeartbeats == 2

\* ------------------------------------------------------------------ values
Nil == "nil"
ActivityTaskCanceledError == "ActivityTaskCanceledError"
StartErr == "startErr"
SignalStartErr == "signalStartErr"
TickErr == "tickErr"
SignalUpdateErr == "signalUpdateErr"
CancelErr == "cancelErr"

\* What Handler.Start may hand back as its update, what the k-th Tick may hand
\* back as its result (nil, or a result no other Tick hands back) and as its
\* error, and what a RecordActivityTaskHeartbeat call may do.
StartUpdates == {"started"}
ResultNames == <<"res1", "res2", "res3", "res4", "res5", "res6">>
TickResults(k) == {Nil, ResultNames[k]}
TickErrors == {Nil, TickErr}
HeartbeatOutcomes == {"recorded", "cancelRequested", "taskGone", "otherError"}

VARIABLES
    tickMinInterval,   \* adapter.tickMinInterval
    coordPc,           \* where coordinate is
    hbPc,              \* where the heartbeat goroutine is
    stopClosed,        \* stopHeartbeating has been closed
    nStopClose,        \* number of close(stopHeartbeating) executed
    hbSending,         \* the value heartbeat is sending on cancelActivity
    hbReason,          \* why heartbeat emitted: "none", "cancelRequested", "taskGone"
    cause,             \* coordinate's local `cause`
    received,          \* coordinate has received from cancel
    update,            \* the value Start returned
    startSignals,      \* payloads passed to signalStart, in order
    ret,               \* the pair coordinate returned
    exit,              \* the return statement coordinate left by
    nReturn,           \* number of times coordinate returned
    nStart,            \* Handler.Start invocations
    nTicks,            \* Handler.Tick invocations
    tickLog,           \* the (continue, result) pairs Tick returned, in order
    updates,           \* payloads passed to signalUpdate, in order of the calls
    updateFailed,      \* a signalUpdate call returned an error
    nCancel,           \* Handler.Cancel invocations
    cancelResult,      \* what Handler.Cancel returned
    setupErr,          \* the error the last of Start and signalStart returned
    nHb,               \* RecordActivityTaskHeartbeat calls made
    hbLog,             \* what the calls that returned answered, in order
    stopErr,           \* the error of the Tick that returned continue=false
    ticks,             \* the ticker `ticks` of coordinate
    heartbeats,        \* the ticker `heartbeats` of heartbeat
    sinceTick,         \* clock units since the last Tick invocation began, at most tickMinInterval
    prompt,            \* the last Tick invocation took a firing of this very instant
    prevPrompt         \* the same, of the Tick invocation before the last

vars == <<tickMinInterval, coordPc, hbPc, stopClosed, nStopClose,
          hbSending, hbReason, cause, received, update, startSignals, ret, exit,
          nReturn, nStart, nTicks, tickLog, updates, updateFailed, nCancel,
          cancelResult, setupErr, nHb, hbLog, stopErr, ticks, heartbeats, sinceTick, prompt, prevPrompt>>

config == <<tickMinInterval>>
handlerCalls == <<nStart, nTicks, tickLog, nCancel, cancelResult, stopErr>>
signals == <<update, startSignals, updates, updateFailed, setupErr>>
channels == <<stopClosed, nStopClose, hbSending, hbReason, cause, received, hbLog>>
returned == <<ret, exit, nReturn>>
timing == <<sinceTick, prompt, prevPrompt>>

\* ------------------------------------------------------------- time.Ticker
\* The ticker `ticks`.  active: created and not stopped; phase: clock units
\* to the next firing; pending: the channel holds a value; stale: that value
\* was sent at an earlier instant than the present one.
NoTicker == [active |-> FALSE, phase |-> 0, pending |-> FALSE, stale |-> FALSE]

NewTicker(d) == [active |-> TRUE, phase |-> d, pending |-> FALSE, stale |-> FALSE]

TickerStop(t) == [t EXCEPT !.active = FALSE]

\* The ticker's period has elapsed: send unless the channel is full.
TickerSend(t, d) ==
    IF t.pending THEN [t EXCEPT !.phase = d]
    ELSE [t EXCEPT !.phase = d, !.pending = TRUE, !.stale = FALSE]

\* One clock unit passes.
TickerAge(t) ==
    [t EXCEPT !.phase = IF t.active THEN t.phase - 1 ELSE t.phase,
              !.stale = t.pending]

TickerDue(t) == t.active /\ t.phase = 0

\* A receive from the ticker's channel.
TickerRecv(t) == [t EXCEPT !.pending = FALSE, !.stale = FALSE]

\* The ticker `heartbeats`: created and not stopped, and whether its channel
\* holds a value.
NoHeartbeats == [active |-> FALSE, pending |-> FALSE]

NewHeartbeats == [active |-> TRUE, pending |-> FALSE]

\* ------------------------------------------------------------------- Init
Init ==
    /\ tickMinInterval \in 1..MaxInterval
    /\ coordPc = "entry"
    /\ hbPc = "notStarted"
    /\ stopClosed = FALSE
    /\ nStopClose = 0
    /\ hbSending = Nil
    /\ hbReason = "none"
    /\ cause = Nil
    /\ received = FALSE
    /\ update = Nil
    /\ startSignals = <<>>
    /\ ret = [res |-> Nil, err |-> Nil]
    /\ exit = "none"
    /\ nReturn = 0
    /\ nStart = 0
    /\ nTicks = 0
    /\ tickLog = <<>>
    /\ updates = <<>>
    /\ updateFailed = FALSE
    /\ nCancel = 0
    /\ cancelResult = Nil
    /\ setupErr = Nil
    /\ nHb = 0
    /\ hbLog = <<>>
    /\ stopErr = Nil
    /\ ticks = NoTicker
    /\ heartbeats = NoHeartbeats
    /\ sinceTick = tickMinInterval
    /\ prompt = TRUE
    /\ prevPrompt = TRUE

\* ------------------------------------------------------------- coordinate
\* Mutant: the error check always passes.
FailedNever(err) == FALSE

\* `if err != nil`
Failed(err) == err # Nil

\* return res, err before any defer is registered (lines 130, 133).
ReturnEarly(res, err, how) ==
    /\ coordPc' = "done"
    /\ ret' = [res |-> res, err |-> err]
    /\ exit' = how
    /\ nReturn' = nReturn + 1
    /\ UNCHANGED <<ticks, stopClosed, nStopClose>>

\* Mutant: the deferred close(stopHeartbeating) is missing.
ReturnNoClose(res, err, how) ==
    /\ coordPc' = "done"
    /\ ret' = [res |-> res, err |-> err]
    /\ exit' = how
    /\ nReturn' = nReturn + 1
    /\ ticks' = TickerStop(ticks)
    /\ UNCHANGED <<stopClosed, nStopClose>>

\* return res, err with the deferred ticks.Stop() and close(stopHeartbeating).
Return(res, err, how) ==
    /\ coordPc' = "done"
    /\ ret' = [res |-> res, err |-> err]
    /\ exit' = how
    /\ nReturn' = nReturn + 1
    /\ ticks' = TickerStop(ticks)
    /\ stopClosed' = TRUE
    /\ nStopClose' = nStopClose + 1

\* coordinate is entered and calls c.handler.Start.
StartBegin ==
    /\ coordPc = "entry"
    /\ coordPc' = "start"
    /\ nStart' = nStart + 1
    /\ UNCHANGED <<config, hbPc, channels, signals, returned, nTicks, tickLog,
                   nCancel, cancelResult, stopErr, nHb, ticks, heartbeats, timing>>

\* Handler.Start returns (update, err).
StartReturn ==
    /\ coordPc = "start"
    /\ \E u \in StartUpdates, e \in {Nil, StartErr} :
          /\ update' = u
          /\ setupErr' = e
          /\ IF Failed(e)
                THEN ReturnEarly(Nil, e, "startFailed")
                ELSE /\ coordPc' = "signalStart"
                     /\ UNCHANGED <<returned, ticks, stopClosed, nStopClose>>
    /\ UNCHANGED <<config, hbPc, hbSending, hbReason, cause, received, hbLog,
                   startSignals, updates, updateFailed, handlerCalls, nHb, heartbeats,
                   timing>>

\* Mutant: the heartbeat goroutine is launched before signalStart is called.
SignalStartAfterLaunch ==
    /\ coordPc = "signalStart"
    /\ hbPc = "notStarted"
    /\ hbPc' = "launched"
    /\ UNCHANGED <<config, coordPc, channels, signals, returned, handlerCalls, nHb,
                   ticks, heartbeats, timing>>

\* c.worker.signalStart(activityTask, update); on success the channels are
\* made, the heartbeat goroutine is launched and the ticker `ticks` is created.
SignalStart ==
    /\ coordPc = "signalStart"
    /\ startSignals' = Append(startSignals, update)
    /\ \E e \in {Nil, SignalStartErr} :
          /\ setupErr' = e
          /\ IF Failed(e)
                THEN /\ ReturnEarly(Nil, e, "signalStartFailed")
                     /\ UNCHANGED hbPc
                ELSE /\ hbPc' = "launched"
                     /\ ticks' = NewTicker(tickMinInterval)
                     /\ coordPc' = "select"
                     /\ UNCHANGED <<returned, stopClosed, nStopClose>>
    /\ UNCHANGED <<config, hbSending, hbReason, cause, received, hbLog, update,
                   updates, updateFailed, handlerCalls, nHb, heartbeats, timing>>

\* Mutant: the loop does not wait for the ticker.
TickReadyAlways == TRUE

\* The select case `<-ticks.C` can be taken.
TickReady == ticks.pending

\* Mutant: every result of a continuing Tick is forwarded, nil included.
HasProgressAlways(res) == TRUE

\* `if res != nil`
HasProgress(res) == res # Nil

\* The select case `cause := <-cancel` can be taken: a sender is waiting.
CancelReady == hbPc = "send"

\* case <-ticks.C: the tick is received and c.handler.Tick is called.
TickBegin ==
    /\ coordPc = "select"
    /\ TickReady
    /\ coordPc' = "tick"
    /\ ticks' = TickerRecv(ticks)
    /\ nTicks' = nTicks + 1
    /\ sinceTick' = 0
    /\ prevPrompt' = prompt
    /\ prompt' = ~ticks.stale
    /\ UNCHANGED <<config, hbPc, channels, signals, returned, nStart, tickLog,
                   nCancel, cancelResult, stopErr, nHb, heartbeats>>

\* Mutant: with continue=false only the error is returned.
TickReturnDropsResult ==
    /\ coordPc = "tick"
    /\ \E cont \in BOOLEAN, res \in TickResults(nTicks), err \in TickErrors :
          /\ nTicks = MaxTicks => ~cont
          /\ tickLog' = Append(tickLog, [cont |-> cont, res |-> res])
          /\ stopErr' = IF ~cont THEN err ELSE stopErr
          /\ IF ~cont
                THEN Return(Nil, err, "tick")
                ELSE /\ coordPc' = IF HasProgress(res) THEN "update" ELSE "select"
                     /\ UNCHANGED <<returned, ticks, stopClosed, nStopClose>>
    /\ UNCHANGED <<config, hbPc, hbSending, hbReason, cause, received, hbLog,
                   signals, nStart, nTicks, nCancel, cancelResult, nHb, heartbeats,
                   timing>>

\* Handler.Tick returns (cont, res, err).
TickReturn ==
    /\ coordPc = "tick"
    /\ \E cont \in BOOLEAN, res \in TickResults(nTicks), err \in TickErrors :
          /\ nTicks = MaxTicks => ~cont
          /\ tickLog' = Append(tickLog, [cont |-> cont, res |-> res])
          /\ stopErr' = IF ~cont THEN err ELSE stopErr
          /\ IF ~cont
                THEN Return(res, err, "tick")
                ELSE /\ coordPc' = IF HasProgress(res) THEN "update" ELSE "select"
                     /\ UNCHANGED <<returned, ticks, stopClosed, nStopClose>>
    /\ UNCHANGED <<config, hbPc, hbSending, hbReason, cause, received, hbLog,
                   signals, nStart, nTicks, nCancel, cancelResult, nHb, heartbeats,
                   timing>>

\* c.worker.signalUpdate(activityTask, res) is called: the payload is passed
\* and coordinate waits for the answer.
SignalUpdate ==
    /\ coordPc = "update"
    /\ coordPc' = "updating"
    /\ updates' = Append(updates, tickLog[Len(tickLog)].res)
    /\ UNCHANGED <<config, hbPc, channels, update, startSignals, updateFailed,
                   setupErr, returned, handlerCalls, nHb, ticks, heartbeats, timing>>

\* signalUpdate returns.  On an error coordinate executes `cancel <- err`: a
\* send on the unbuffered channel that coordinate alone receives from, so no
\* receiver can ever be waiting and coordinate stays at that statement.
SignalUpdateReturn ==
    /\ coordPc = "updating"
    /\ \E e \in {Nil, SignalUpdateErr} :
          IF Failed(e)
             THEN /\ updateFailed' = TRUE
                  /\ coordPc' = "sendCancel"
             ELSE /\ coordPc' = "select"
                  /\ UNCHANGED updateFailed
    /\ UNCHANGED <<config, hbPc, channels, update, startSignals, updates, setupErr,
                   returned, handlerCalls, nHb, ticks, heartbeats, timing>>

\* case cause := <-cancel: the rendezvous with heartbeat's send; coordinate
\* calls c.handler.Cancel.
RecvCancel ==
    /\ coordPc = "select"
    /\ CancelReady
    /\ cause' = hbSending
    /\ received' = TRUE
    /\ hbPc' = "sent"
    /\ coordPc' = "cancel"
    /\ nCancel' = nCancel + 1
    /\ UNCHANGED <<config, stopClosed, nStopClose, hbSending, hbReason, hbLog,
                   signals, returned, nStart, nTicks, tickLog, cancelResult, stopErr,
                   nHb, ticks, heartbeats, timing>>

\* Mutant: after Handler.Cancel the loop goes on instead of returning.
CancelContinue ==
    /\ coordPc = "cancel"
    /\ \E e \in {Nil, CancelErr} : cancelResult' = e
    /\ coordPc' = "select"
    /\ UNCHANGED <<config, hbPc, channels, signals, returned, nStart, nTicks,
                   tickLog, nCancel, stopErr, nHb, ticks, heartbeats, timing>>

\* Mutant: an error of Handler.Cancel is returned in place of the cause.
CancelEscalate ==
    /\ coordPc = "cancel"
    /\ \E e \in {Nil, CancelErr} :
          /\ cancelResult' = e
          /\ Return(Nil, IF Failed(e) THEN e ELSE cause, "cancel")
    /\ UNCHANGED <<config, hbPc, hbSending, hbReason, cause, received, hbLog,
                   signals, nStart, nTicks, tickLog, nCancel, stopErr, nHb,
                   heartbeats, timing>>

\* Handler.Cancel returns; its error is logged; return nil, cause.
CancelReturn ==
    /\ coordPc = "cancel"
    /\ \E e \in {Nil, CancelErr} : cancelResult' = e
    /\ Return(Nil, cause, "cancel")
    /\ UNCHANGED <<config, hbPc, hbSending, hbReason, cause, received, hbLog,
                   signals, nStart, nTicks, tickLog, nCancel, stopErr, nHb,
                   heartbeats, timing>>

\* -------------------------------------------------------------- heartbeat
\* Mutant: the marker is sent whatever the outcome.
CancelCauseMarker(outcome) == ActivityTaskCanceledError

\* Mutant: the two causes are swapped.
CancelCauseSwapped(outcome) ==
    IF outcome = "taskGone" THEN ActivityTaskCanceledError ELSE Nil

\* The value heartbeat sends on cancelActivity for a heartbeat outcome.
CancelCause(outcome) ==
    IF outcome = "taskGone" THEN Nil ELSE ActivityTaskCanceledError

\* Mutant: every failed heartbeat call ends the monitoring.
SurfacesAnyError(outcome) == outcome # "recorded"

\* A heartbeat outcome after which heartbeat sends on cancelActivity.
Surfaces(outcome) == outcome \in {"taskGone", "cancelRequested"}

\* The goroutine starts running: heartbeats := time.NewTicker(...).
HbInit ==
    /\ hbPc = "launched"
    /\ hbPc' = "select"
    /\ heartbeats' = NewHeartbeats
    /\ UNCHANGED <<config, coordPc, channels, signals, returned, handlerCalls, nHb,
                   ticks, timing>>

\* case <-heartbeats.C: the tick is received and RecordActivityTaskHeartbeat
\* is called; the goroutine waits for the answer.
HbBeat ==
    /\ hbPc = "select"
    /\ heartbeats.pending
    /\ nHb < MaxHeartbeats
    /\ hbPc' = "beat"
    /\ heartbeats' = [heartbeats EXCEPT !.pending = FALSE]
    /\ nHb' = nHb + 1
    /\ UNCHANGED <<config, coordPc, channels, signals, returned, handlerCalls, ticks,
                   timing>>

\* RecordActivityTaskHeartbeat answers: on the task-gone fault or a
\* cancel-requested status heartbeat starts its send on cancelActivity, on
\* anything else it goes back to the select.
HbBeatReturn ==
    /\ hbPc = "beat"
    /\ \E o \in HeartbeatOutcomes :
          /\ hbLog' = Append(hbLog, o)
          /\ IF Surfaces(o)
                THEN /\ hbPc' = "send"
                     /\ hbSending' = CancelCause(o)
                     /\ hbReason' = o
                ELSE /\ hbPc' = "select"
                     /\ UNCHANGED <<hbSending, hbReason>>
    /\ UNCHANGED <<config, coordPc, stopClosed, nStopClose, cause, received, signals,
                   returned, handlerCalls, nHb, ticks, heartbeats, timing>>

\* Mutant: the `return` after the send is missing, the loop goes on.
HbContinue ==
    /\ hbPc = "sent"
    /\ hbPc' = "select"
    /\ UNCHANGED <<config, coordPc, channels, signals, returned, handlerCalls, nHb,
                   ticks, heartbeats, timing>>

\* `return` after the send on cancelActivity, with the deferred heartbeats.Stop().
HbReturn ==
    /\ hbPc = "sent"
    /\ hbPc' = "stopped"
    /\ heartbeats' = [heartbeats EXCEPT !.active = FALSE]
    /\ UNCHANGED <<config, coordPc, channels, signals, returned, handlerCalls, nHb,
                   ticks, timing>>

\* case <-stop: return, with the deferred heartbeats.Stop().
HbStop ==
    /\ hbPc = "select"
    /\ stopClosed
    /\ hbPc' = "stopped"
    /\ heartbeats' = [heartbeats EXCEPT !.active = FALSE]
    /\ UNCHANGED <<config, coordPc, channels, signals, returned, handlerCalls, nHb,
                   ticks, timing>>

\* ------------------------------------------------------------------ clock
\* The ticker `ticks` fires.
TicksFire ==
    /\ TickerDue(ticks)
    /\ ticks' = TickerSend(ticks, tickMinInterval)
    /\ UNCHANGED <<config, coordPc, hbPc, channels, signals, returned, handlerCalls,
                   nHb, heartbeats, timing>>

\* The ticker `heartbeats` fires; with its channel full the firing is dropped.
HeartbeatsFire ==
    /\ heartbeats.active
    /\ ~heartbeats.pending
    /\ heartbeats' = [heartbeats EXCEPT !.pending = TRUE]
    /\ UNCHANGED <<config, coordPc, hbPc, channels, signals, returned, handlerCalls,
                   nHb, ticks, timing>>

\* One clock unit passes; `ticks` fires first when it is due.
Advance ==
    /\ ~TickerDue(ticks)
    /\ ticks' = TickerAge(ticks)
    /\ sinceTick' = IF sinceTick < tickMinInterval THEN sinceTick + 1 ELSE sinceTick
    /\ UNCHANGED <<config, coordPc, hbPc, channels, signals, returned, handlerCalls,
                   nHb, heartbeats, prompt, prevPrompt>>

\* ------------------------------------------------------------------- Next
Coordinate ==
    \/ StartBegin
    \/ StartReturn
    \/ SignalStart
    \/ TickBegin
    \/ TickReturn
    \/ SignalUpdate
    \/ SignalUpdateReturn
    \/ RecvCancel
    \/ CancelReturn

Heartbeat ==
    \/ HbInit
    \/ HbBeat
    \/ HbBeatReturn
    \/ HbReturn
    \/ HbStop

Clock ==
    \/ TicksFire
    \/ HeartbeatsFire
    \/ Advance

Next == Coordinate \/ Heartbeat \/ Clock

Spec == Init /\ [][Next]_vars

\* The Go scheduler runs every goroutine that can take a step, a call that
\* was made returns, and time passes.
FairSpec ==
    /\ Spec
    /\ WF_vars(Coordinate)
    /\ WF_vars(Heartbeat)
    /\ WF_vars(TicksFire)
    /\ WF_vars(HeartbeatsFire)
    /\ WF_vars(Advance)

TypeOK ==
    /\ coordPc \in {"entry", "start", "signalStart", "select", "tick", "update",
                    "updating", "sendCancel", "cancel", "done"}
    /\ hbPc \in {"notStarted", "launched", "select", "beat", "send", "sent",
                 "stopped"}
    /\ nTicks \in 0..MaxTicks
    /\ nHb \in 0..MaxHeartbeats
    /\ Len(tickLog) <= nTicks
    /\ Len(hbLog) = (IF hbPc = "beat" THEN nHb - 1 ELSE nHb)
    /\ sinceTick \in 0..tickMinInterval

\* ----------------------------------------------------------------- claims
\* C1: every session produces exactly one terminal outcome: coordinate
\* returns at most once and, under fair scheduling, eventually returns on
\* every path, the one where signalUpdate fails included.
C1_ExactlyOneOutcome == [](nReturn <= 1) /\ <>(coordPc = "done")

\* C2: if signalUpdate fails for a non-nil result of a Tick that returned
\* continue=true, Handler.Cancel is invoked exactly once and the session
\* ends Canceled carrying the signalUpdate error.
C2_UpdateFailureCancels ==
    updateFailed ~> (/\ coordPc = "done"
                     /\ nCancel = 1
                     /\ ret = [res |-> Nil, err |-> SignalUpdateErr])

\* C3: once coordinate has returned after launching the heartbeat goroutine,
\* that goroutine eventually terminates.
C3_NoLeakedMonitor ==
    (coordPc = "done" /\ hbPc # "notStarted") ~> (hbPc = "stopped")

\* C4: if Start, or signalStart after it, returns an error, coordinate
\* returns (nil, that error); no heartbeat goroutine is launched, no heartbeat
\* call is made, and Tick, Cancel and signalUpdate are never invoked.
C4_SetupFailure ==
    setupErr # Nil =>
        /\ coordPc = "done"
        /\ nReturn = 1
        /\ ret = [res |-> Nil, err |-> setupErr]
        /\ hbPc = "notStarted"
        /\ ~heartbeats.active
        /\ nHb = 0
        /\ nTicks = 0
        /\ nCancel = 0
        /\ updates = <<>>

C4_Witness ==
    /\ setupErr = SignalStartErr
    /\ coordPc = "done"
    /\ startSignals = <<update>>

\* C5 as claimed: any two consecutive Tick invocations begin at least
\* tickMinInterval apart, also after a Tick call that took longer than that.
C5_AlwaysApart ==
    [][(nTicks' = nTicks + 1 /\ nTicks >= 1) => sinceTick = tickMinInterval]_vars

\* C5 amended: a Tick invocation begins at least tickMinInterval after the
\* one before it whenever that one began at the instant its ticker firing
\* occurred, as every invocation does while Tick calls return before the next
\* firing.  (A Tick call that outlasts the interval leaves one firing pending:
\* the next invocation takes it late, and the one after that may follow
\* sooner than tickMinInterval.)
C5_ApartAfterPromptTick ==
    [][(nTicks' = nTicks + 1 /\ nTicks >= 1 /\ prompt)
          => sinceTick = tickMinInterval]_vars

C5_Witness ==
    /\ coordPc = "tick"
    /\ nTicks >= 2
    /\ prevPrompt
    /\ sinceTick = 0
    /\ tickMinInterval > 1

\* C6: when a heartbeat call returns the task-gone fault and coordinate
\* receives the signal, Handler.Cancel is invoked exactly once and coordinate
\* returns (nil, nil): Canceled with no error payload.
C6_TaskGoneCancels ==
    (received /\ hbReason = "taskGone") =>
        /\ nCancel = 1
        /\ coordPc \in {"cancel", "done"}
        /\ coordPc = "done" => exit = "cancel" /\ ret = [res |-> Nil, err |-> Nil]

C6_Witness ==
    /\ coordPc = "done"
    /\ received
    /\ hbReason = "taskGone"
    /\ nHb = 2

\* C7 as claimed: the cause returned on the cancellation path is nil after
\* a cancel-requested heartbeat response and the marker after the task-gone
\* fault.
C7_CauseAsClaimed ==
    (coordPc = "done" /\ exit = "cancel") =>
        /\ hbReason = "cancelRequested" => ret.err = Nil
        /\ hbReason = "taskGone" => ret.err = ActivityTaskCanceledError

\* C7 amended: the cause returned on the cancellation path is the marker
\* ActivityTaskCanceledError after a cancel-requested heartbeat response
\* and nil after the task-gone fault.
C7_CauseByReason ==
    (coordPc = "done" /\ exit = "cancel") =>
        /\ ret.res = Nil
        /\ hbReason = "cancelRequested" => ret.err = ActivityTaskCanceledError
        /\ hbReason = "taskGone" => ret.err = Nil

C7_Witness ==
    /\ coordPc = "done"
    /\ exit = "cancel"
    /\ hbReason = "cancelRequested"
    /\ ret.err = ActivityTaskCanceledError

\* The non-nil results of the Ticks that returned continue=true, in order.
RECURSIVE Progress(_)
Progress(log) ==
    IF log = <<>> THEN <<>>
    ELSE LET front == Progress(SubSeq(log, 1, Len(log) - 1))
             last == log[Len(log)]
         IN  IF last.cont /\ last.res # Nil THEN Append(front, last.res) ELSE front

\* C8: the payloads passed to signalUpdate are, in order and without
\* duplicates or omissions, the non-nil results of the Ticks that returned
\* continue=true (the newest of them is still to be passed while coordinate
\* is between Tick and signalUpdate); the result of the Tick that returned
\* continue=false is not passed and is the result coordinate returns.
C8_UpdatesInOrder ==
    /\ IF coordPc = "update"
          THEN Append(updates, tickLog[Len(tickLog)].res) = Progress(tickLog)
          ELSE updates = Progress(tickLog)
    /\ exit = "tick" =>
          /\ ~tickLog[Len(tickLog)].cont
          /\ ret.res = tickLog[Len(tickLog)].res
          /\ \A i \in 1..Len(updates) : updates[i] # ret.res

C8_Witness ==
    /\ coordPc = "done"
    /\ exit = "tick"
    /\ ~received
    /\ ~updateFailed
    /\ updates = <<"res1", "res2">>
    /\ ret = [res |-> "res3", err |-> Nil]

\* C9: once heartbeat has surfaced a cancellation it makes no further
\* RecordActivityTaskHeartbeat call and never waits on its ticker again,
\* whether or not coordinate receives the signal.
C9_NoBeatAfterSurfacing ==
    [][hbReason # "none" =>
          /\ nHb' = nHb
          /\ hbReason' = hbReason
          /\ hbPc' \in {"send", "sent", "stopped"}]_vars

C9_Witness ==
    /\ hbPc = "send"
    /\ heartbeats.pending
    /\ nHb < MaxHeartbeats
    /\ coordPc = "done"

\* Some Tick has returned continue=false.
TickStopped == tickLog # <<>> /\ ~tickLog[Len(tickLog)].cont

\* C10: Handler.Cancel is invoked exactly once in a session in which
\* coordinate receives a cancellation signal and never otherwise, never after
\* a Tick returned continue=false, and no Tick or signalUpdate is invoked
\* after it.
C10_CancelOnce ==
    /\ [](/\ nCancel = (IF received THEN 1 ELSE 0)
          /\ TickStopped => nCancel = 0)
    /\ [][/\ nCancel >= 1 => nTicks' = nTicks /\ updates' = updates
          /\ TickStopped => nCancel' = nCancel]_vars

C10_Witness ==
    /\ coordPc = "done"
    /\ received
    /\ nCancel = 1
    /\ Len(updates) >= 1
    /\ cancelResult = CancelErr

\* C11: an error returned by Handler.Cancel does not change what coordinate
\* returns: on the cancellation path it returns (nil, the cause received),
\* the value heartbeat sent, whatever Cancel returned.
C11_CancelErrorIgnored ==
    exit = "cancel" =>
        /\ ret = [res |-> Nil, err |-> cause]
        /\ cause = hbSending
        /\ ret.err # CancelErr

C11_Witness ==
    /\ coordPc = "done"
    /\ exit = "cancel"
    /\ cancelResult = CancelErr
    /\ ret.err = ActivityTaskCanceledError

\* The heartbeat calls made so far all failed with an error other than the
\* task-gone fault.
OnlyTransientFailures ==
    hbLog # <<>> /\ \A i \in 1..Len(hbLog) : hbLog[i] = "otherError"

\* C12: a heartbeat call that fails with an error other than the task-gone
\* fault neither stops the monitor nor emits a cancellation signal, however
\* many such failures follow each other: the monitor is back in its select
\* or in its next call with its ticker running (or has stopped because stop
\* was closed), and the failing call changes nothing of coordinate.
C12_TransientFailureTolerated ==
    /\ [](OnlyTransientFailures =>
             /\ hbReason = "none"
             /\ hbSending = Nil
             /\ ~received
             /\ nCancel = 0
             /\ hbPc \in {"select", "beat", "stopped"}
             /\ hbPc \in {"select", "beat"} => heartbeats.active
             /\ hbPc = "stopped" => stopClosed)
    /\ [][(Len(hbLog') > Len(hbLog) /\ hbLog'[Len(hbLog')] = "otherError") =>
             /\ hbPc' = "select"
             /\ heartbeats'.active
             /\ UNCHANGED <<coordPc, ret, exit, cause, received, nCancel, nTicks,
                            updates>>]_vars

C12_Witness ==
    /\ hbLog = <<"otherError", "otherError">>
    /\ hbPc = "select"
    /\ coordPc = "select"
    /\ heartbeats.pending

\* C13: when Tick returns continue=false coordinate returns at once exactly
\* Tick's (result, error), with no further Tick, no signalUpdate and no
\* Cancel invocation after it.
C13_StopReturnsTickResult ==
    /\ [](TickStopped =>
             /\ coordPc = "done"
             /\ exit = "tick"
             /\ ret = [res |-> tickLog[Len(tickLog)].res, err |-> stopErr]
             /\ nTicks = Len(tickLog)
             /\ updates = Progress(tickLog)
             /\ nCancel = 0)
    /\ [][TickStopped =>
             /\ nTicks' = nTicks
             /\ updates' = updates
             /\ nCancel' = nCancel
             /\ ret' = ret]_vars

C13_Witness ==
    /\ TickStopped
    /\ ret = [res |-> "res2", err |-> TickErr]
    /\ hbPc = "send"

\* C14: whenever coordinate has returned, the heartbeat goroutine has
\* already stopped (it is not running, waiting on its ticker or blocked in
\* its send).
C14_StoppedBeforeReturn ==
    coordPc = "done" => hbPc \in {"notStarted", "stopped"}

\* C15: on every exit of coordinate taken after the heartbeat goroutine was
\* launched the stop channel is closed exactly once and is closed by the time
\* coordinate has returned; it is never closed while the loop is running.
C15_StopClosedOnExit ==
    /\ nStopClose <= 1
    /\ stopClosed <=> nStopClose = 1
    /\ stopClosed => coordPc = "done"
    /\ (coordPc = "done" /\ exit \in {"tick", "cancel"}) => stopClosed
    /\ (coordPc = "done" /\ hbPc # "notStarted") => stopClosed

C15_Witness ==
    /\ coordPc = "done"
    /\ exit = "cancel"
    /\ nStopClose = 1
    /\ hbPc = "stopped"

\* C16: Handler.Start is invoked exactly once and first; signalStart is
\* sent at most once, with the value Start returned, and exactly once in a
\* session (Start succeeded); Start and signalStart have completed, without
\* error, before the heartbeat goroutine exists, before the first Tick and
\* before the first heartbeat call.
C16_StartFirst ==
    /\ nStart = (IF coordPc = "entry" THEN 0 ELSE 1)
    /\ startSignals \in {<<>>, <<update>>}
    /\ startSignals # <<>> => coordPc \notin {"entry", "start"} /\ update \in StartUpdates
    /\ (coordPc \notin {"entry", "start"} /\ setupErr # StartErr)
          => (startSignals = <<update>> \/ coordPc = "signalStart")
    /\ (nTicks >= 1 \/ nHb >= 1 \/ hbPc # "notStarted" \/ ticks.active) =>
          /\ nStart = 1
          /\ startSignals = <<update>>
          /\ setupErr = Nil
          /\ coordPc \notin {"entry", "start", "signalStart"}

C16_Witness ==
    /\ nTicks >= 1
    /\ nHb >= 1
    /\ nStart = 1
    /\ startSignals = <<"started">>

\* C17: after the stop channel has been closed heartbeat makes no further
\* RecordActivityTaskHeartbeat call and does not begin a send on the
\* cancellation channel.
C17_NothingAfterStop ==
    [][stopClosed =>
          /\ nHb' = nHb
          /\ hbPc' = "send" => hbPc = "send"]_vars

\* The sends on the cancellation channel attempted so far.
CancelSends ==
    (IF hbReason # "none" THEN 1 ELSE 0) + (IF coordPc = "sendCancel" THEN 1 ELSE 0)

\* C18: only heartbeat sends on the cancellation channel, only coordinate
\* closes the stop channel, and at most one send on the cancellation channel
\* is attempted in a session.
C18_SingleWriter ==
    /\ coordPc # "sendCancel"
    /\ CancelSends <= 1
    /\ stopClosed => coordPc = "done"

\* The part of C19 that no run can break by stopping: Handler.Cancel is
\* invoked only from the select, with no Tick call in progress and the
\* update of the last Tick passed on, and never on top of a Tick that
\* returned continue=false.
C19_Cooperative ==
    /\ [](nReturn <= 1 /\ ~(TickStopped /\ nCancel >= 1))
    /\ [][nCancel' = nCancel + 1 =>
             /\ coordPc = "select"
             /\ Len(tickLog) = nTicks
             /\ updates = Progress(tickLog)]_vars

\* C19: cancellation is cooperative, and once heartbeat offers a
\* cancellation signal exactly one terminal path is taken: the Tick in
\* progress and its signalUpdate run to completion, Handler.Cancel is not
\* invoked meanwhile, and coordinate returns exactly once.
C19_CooperativeOneTerminalPath ==
    /\ C19_Cooperative
    /\ (hbPc = "send") ~> (coordPc = "done" /\ nReturn = 1)

\* C20: a session that ended through the cancellation path never returns
\* (nil, nil).
C20_CanceledDistinguishable ==
    (coordPc = "done" /\ nCancel >= 1) => ret # [res |-> Nil, err |-> Nil]

====
